---- MODULE Spec2Model ----
(***************************************************************************)
(* State machine of streaming_bot.stream_manager.StreamingManager: the     *)
(* session registry, the one-shot scheduler jobs, the encoder processes    *)
(* and the per-session monitor tasks, with every handler of the manager as *)
(* one action.  asyncio runs one coroutine at a time and the only real     *)
(* suspension point of the manager is the monitor's asyncio.sleep, so each *)
(* handler is atomic and a monitor is cut at its sleep.                    *)
(***************************************************************************)
EXTENDS Integers, Sequences, FiniteSets, TLC

VARIABLES sessions, monitors, jobs, procs, nBroadcasts, streams, nextPid, now, step

vars == <<sessions, monitors, jobs, procs, nBroadcasts, streams, nextPid, now, step>>

(* ------------------------------ bounds --------------------------------- *)

\* streams a run asks for, started at once or scheduled
MaxBroadcasts == 1
\* entries a session's log may hold before the run stops appending to it
MaxLog == 5
\* the clock runs 0..MaxTime
MaxTime == 1
\* digits in the bitrates, and extra destinations in the requests, that the
\* command builder is tried with
MaxBitrateLen == 2
MaxExtras == 2

(* --------------------------- optional values --------------------------- *)

\* Python's None and a present value, as a tuple of length 0 or 1
None == <<>>
Some(x) == <<x>>
IsSome(o) == o # <<>>
Get(o) == o[1]

(* ------------------------------ strings -------------------------------- *)

Digit(d) ==
    CASE d = 0 -> "0" [] d = 1 -> "1" [] d = 2 -> "2" [] d = 3 -> "3" [] d = 4 -> "4"
      [] d = 5 -> "5" [] d = 6 -> "6" [] d = 7 -> "7" [] d = 8 -> "8" [] d = 9 -> "9"

\* str(n)
RECURSIVE Str(_)
Str(n) ==
    IF n < 0 THEN "-" \o Str(0 - n)
    ELSE IF n < 10 THEN Digit(n)
    ELSE Str(n \div 10) \o Digit(n % 10)

DigitValue(c) ==
    CASE c = "0" -> 0 [] c = "1" -> 1 [] c = "2" -> 2 [] c = "3" -> 3 [] c = "4" -> 4
      [] c = "5" -> 5 [] c = "6" -> 6 [] c = "7" -> 7 [] c = "8" -> 8 [] c = "9" -> 9
      [] OTHER -> -1

\* a Python str taken apart: the sequence of its characters
RECURSIVE Text(_)
Text(cs) == IF cs = <<>> THEN "" ELSE Head(cs) \o Text(Tail(cs))

\* sep.join(parts)
RECURSIVE Join(_, _)
Join(parts, sep) ==
    IF parts = <<>> THEN ""
    ELSE IF Len(parts) = 1 THEN parts[1]
    ELSE parts[1] \o sep \o Join(Tail(parts), sep)

\* cs.rstrip(c)
RECURSIVE RStrip(_, _)
RStrip(cs, c) ==
    IF cs # <<>> /\ cs[Len(cs)] = c THEN RStrip(SubSeq(cs, 1, Len(cs) - 1), c) ELSE cs

\* cs.replace(c, ""), c one character
RECURSIVE Remove(_, _)
Remove(cs, c) ==
    IF cs = <<>> THEN <<>>
    ELSE IF Head(cs) = c THEN Remove(Tail(cs), c)
    ELSE <<Head(cs)>> \o Remove(Tail(cs), c)

\* int(cs) of a digit string; -1 stands for the ValueError of anything else
RECURSIVE ParseInt(_)
ParseInt(cs) ==
    IF cs = <<>> THEN -1
    ELSE LET d == DigitValue(cs[Len(cs)])
         IN IF d < 0 THEN -1
            ELSE IF Len(cs) = 1 THEN d
            ELSE LET r == ParseInt(SubSeq(cs, 1, Len(cs) - 1))
                 IN IF r < 0 THEN -1 ELSE 10 * r + d

\* datetime.isoformat() of the clock value t
IsoFormat(t) == "2030-01-01T00:00:0" \o Str(t)

(* ------------------------------- inputs -------------------------------- *)

Names == {"demo"}
Messages == {"hello"}

Video == [source |-> "video.mp4", is_loop |-> TRUE]
Intro == [source |-> "intro.mp4", is_loop |-> FALSE]
Contents == {Video, Intro}

\* StreamRequest: strings that the manager takes apart are character sequences
Immediate ==
    [title |-> "Demo", description |-> "d", privacy_status |-> "",
     resolution |-> <<"1", "0", "8", "0", "p">>, bitrate |-> <<"4", "5", "0", "0", "k">>,
     content |-> Video, scheduled_start_time |-> None, extra_ingestion_urls |-> <<>>]
Scheduled ==
    [title |-> "Later", description |-> "d", privacy_status |-> "public",
     resolution |-> <<"7", "2", "0", "p">>, bitrate |-> <<"2", "5", "0", "0", "k">>,
     content |-> Intro, scheduled_start_time |-> Some(1),
     extra_ingestion_urls |-> <<"rtmp://backup/live">>]
Rescheduled == [Scheduled EXCEPT !.content = Video, !.title = "Again"]
Requests == {Immediate, Scheduled, Rescheduled}

\* what callers ask for: /streams/start and /streams/schedule with a name and a request
StartInputs == {<<"demo", Immediate>>}
ScheduleInputs == {<<"demo", Immediate>>, <<"demo", Scheduled>>, <<"demo", Rescheduled>>}
\* the content update_content is given
UpdateInputs == {Intro}

BroadcastId(k) == "b" \o Str(k)
StreamId(k) == "s" \o Str(k)
\* identifiers a caller may pass: every one the platform can hand out, and one it never does
Ids == {BroadcastId(k) : k \in 1..MaxBroadcasts} \cup {"unknown"}

IngestionAddresses == {"rtmp://a.rtmp.youtube.com/live2"}
ChatIds == {None, Some("chat")}
HealthReplies ==
    [status : {"active", "inactive"}, health : {"good", "error"}]
MetricsReplies == {None, Some("7")}

(* ------------------------------- models.py ----------------------------- *)

\* StreamSession.append_log
append_log(s, message, t) ==
    [s EXCEPT !.log = Append(@, [ts |-> t, msg |-> message])]

\* StreamSession(...) as start_stream constructs it, the other fields at their defaults
NewSession(name, broadcast_id, stream_id, ingestion_url, live_chat_id, request) ==
    [name |-> name, broadcast_id |-> broadcast_id, stream_id |-> stream_id,
     ingestion_url |-> ingestion_url, live_chat_id |-> live_chat_id,
     requested |-> request, ffmpeg_process_pid |-> None, started_at |-> None,
     last_healthcheck |-> None, reconnect_attempts |-> 0, status |-> "configured",
     log |-> <<>>]

(* --------------------------- effects of a step ------------------------- *)

\* what a handler did to the outside world, in program order: a gateway
\* call with its arguments and its answer, a notification, a process started
\* or signalled, a scheduler job added
Raised == "raised"
Call(fn, args, r) == [kind |-> "call", a |-> fn, b |-> Join(args, ","), r |-> r]
Notify(subject, message) == [kind |-> "notify", a |-> subject, b |-> message, r |-> ""]
Popen(pid, cmd) == [kind |-> "popen", a |-> cmd, b |-> "", r |-> Str(pid)]
Kill(pid) == [kind |-> "kill", a |-> Str(pid), b |-> "-15", r |-> ""]
AddJob(id, run_date, r) == [kind |-> "add_job", a |-> id, b |-> run_date, r |-> r]

\* the events of one kind among a handler's effects
Events(io, kind) == SelectSeq(io, LAMBDA e : e.kind = kind)

NoError == <<>>
HttpError == <<"HttpError">>
OSError == <<"OSError">>
ValueError(msg) == <<"ValueError", msg>>

(* ---------------------- _build_ffmpeg_command -------------------------- *)

input_args(content) ==
    (IF content.is_loop THEN <<"-stream_loop", "-1">> ELSE <<>>)
        \o <<"-re", "-i", content.source>>

filter_args(request) ==
    IF request.resolution # <<>>
    THEN <<"-vf", "scale=-2:" \o Text(Remove(request.resolution, "p"))>>
    ELSE <<>>

\* the destinations with the extra ones first
destinations_extras_first(ingestion_url, request) ==
    request.extra_ingestion_urls \o <<ingestion_url>>

destinations(ingestion_url, request) == <<ingestion_url>> \o request.extra_ingestion_urls

output_args(ingestion_url, request) ==
    LET dests == destinations(ingestion_url, request)
        legs == [i \in 1..Len(dests) |-> "[f=flv:onfail=ignore]" \o dests[i]]
    IN IF Len(dests) = 1
       THEN <<"-f", "flv", dests[1]>>
       ELSE <<"-f", "tee", "\"" \o Join(legs, "|") \o "\"">>

\* int(video_bitrate.rstrip('k')); negative when int() raises
BitrateValue(request) == ParseInt(RStrip(request.bitrate, "k"))

\* the buffer size left at the bitrate
bufsize_single(request) == Str(BitrateValue(request)) \o "k"

bufsize(request) == Str(BitrateValue(request) * 2) \o "k"

ffmpeg_args(content, ingestion_url, request) ==
    <<"ffmpeg">> \o input_args(content)
        \o <<"-c:v", "libx264", "-preset", "veryfast",
             "-b:v", Text(request.bitrate), "-maxrate", Text(request.bitrate),
             "-bufsize", bufsize(request),
             "-pix_fmt", "yuv420p", "-c:a", "aac", "-ar", "44100", "-b:a", "160k">>
        \o filter_args(request) \o output_args(ingestion_url, request)

build_ffmpeg_command(content, ingestion_url, request) ==
    Join(ffmpeg_args(content, ingestion_url, request), " ")

(* ---------------------------- _launch_ffmpeg --------------------------- *)

\* The result of running a piece of a handler on session s: the session as
\* it leaves it, the outside effects in order, the encoder processes it
\* started, and the exception it raised if any.
Result(s, io, started, exc) == [s |-> s, io |-> io, started |-> started, exc |-> exc]

\* launch_ffmpeg that marks the session streaming before it starts the process
launch_ffmpeg_marking(s, pid, env, t) ==
    LET cmd == build_ffmpeg_command(s.requested.content, s.ingestion_url, s.requested)
        s1 == append_log(s, "Launching ffmpeg: " \o cmd, t)
        s2 == [s1 EXCEPT !.ffmpeg_process_pid = Some(pid),
                         !.started_at = Some(t),
                         !.status = "streaming"]
        proc == [pid |-> pid, broadcast_id |-> s.broadcast_id, cmd |-> cmd]
        live == Call("transition", <<s.broadcast_id, "live">>,
                     IF env.live THEN "" ELSE Raised)
        note == Notify("Stream " \o s.name \o " started",
                       "Broadcast " \o s.broadcast_id \o " is now live.")
    IN IF ~env.popen THEN Result([s1 EXCEPT !.status = "streaming"], <<>>, {}, OSError)
       ELSE IF ~env.live THEN Result(s2, <<Popen(pid, cmd), live>>, {proc}, HttpError)
       ELSE Result(s2, <<Popen(pid, cmd), live, note>>, {proc}, NoError)

\* env.popen / env.live: whether subprocess.Popen and transition("live") succeed
launch_ffmpeg(s, pid, env, t) ==
    IF BitrateValue(s.requested) < 0
    THEN Result(s, <<>>, {}, ValueError("invalid literal for int()"))
    ELSE
    LET cmd == build_ffmpeg_command(s.requested.content, s.ingestion_url, s.requested)
        s1 == append_log(s, "Launching ffmpeg: " \o cmd, t)
        s2 == [s1 EXCEPT !.ffmpeg_process_pid = Some(pid),
                         !.started_at = Some(t),
                         !.status = "streaming"]
        proc == [pid |-> pid, broadcast_id |-> s.broadcast_id, cmd |-> cmd]
        live == Call("transition", <<s.broadcast_id, "live">>,
                     IF env.live THEN "" ELSE Raised)
        note == Notify("Stream " \o s.name \o " started",
                       "Broadcast " \o s.broadcast_id \o " is now live.")
    IN IF ~env.popen THEN Result(s1, <<>>, {}, OSError)
       ELSE IF ~env.live THEN Result(s2, <<Popen(pid, cmd), live>>, {proc}, HttpError)
       ELSE Result(s2, <<Popen(pid, cmd), live, note>>, {proc}, NoError)

(* --------------------------- _handle_reconnect ------------------------- *)

\* handle_reconnect with the counter left alone, and with the counter run backwards
handle_reconnect_uncounted(s, pid, env, t) ==
    LET s2 == append_log(s, "Attempting reconnection.", t)
        note == Notify("Reconnecting stream " \o s.name,
                       "Health degraded for broadcast " \o s.broadcast_id
                           \o ", attempt " \o Str(s2.reconnect_attempts) \o ".")
        L == launch_ffmpeg(s2, pid, env, t)
    IN [L EXCEPT !.io = <<note>> \o @]

handle_reconnect_countdown(s, pid, env, t) ==
    LET s1 == [s EXCEPT !.reconnect_attempts = @ - 1]
        s2 == append_log(s1, "Attempting reconnection.", t)
        note == Notify("Reconnecting stream " \o s.name,
                       "Health degraded for broadcast " \o s.broadcast_id
                           \o ", attempt " \o Str(s2.reconnect_attempts) \o ".")
        L == launch_ffmpeg(s2, pid, env, t)
    IN [L EXCEPT !.io = <<note>> \o @]

handle_reconnect(s, pid, env, t) ==
    LET s1 == [s EXCEPT !.reconnect_attempts = @ + 1]
        s2 == append_log(s1, "Attempting reconnection.", t)
        note == Notify("Reconnecting stream " \o s.name,
                       "Health degraded for broadcast " \o s.broadcast_id
                           \o ", attempt " \o Str(s2.reconnect_attempts) \o ".")
        L == launch_ffmpeg(s2, pid, env, t)
    IN [L EXCEPT !.io = <<note>> \o @]

(* ------------------------------ start_stream --------------------------- *)

\* self.sessions[broadcast_id] = session
Register(reg, s) ==
    [b \in DOMAIN reg \cup {s.broadcast_id} |->
        IF b = s.broadcast_id THEN s ELSE reg[b]]

\* request.privacy_status or self.config.default_privacy_status
PrivacyOf(request) ==
    IF request.privacy_status # "" THEN request.privacy_status ELSE "unlisted"

IngestionUrlSwapped(stream_info) ==
    stream_info.stream_name \o "/" \o stream_info.ingestion_address

\* f"{stream_info['ingestion_address']}/{stream_info['stream_name']}"
IngestionUrl(stream_info) ==
    stream_info.ingestion_address \o "/" \o stream_info.stream_name

\* What one run of start_stream does.  env.fail names the call that raises
\* ("none" when every call succeeds), env.chat and env.address are what the
\* platform answers; k, j and pid are the identifiers the platform and the
\* operating system hand out next.
\*   reg      the registry as the run leaves it
\*   monitor  whether asyncio.create_task(self._monitor_session(..)) was reached
\*   made     how many broadcasts, and which streams, the platform created
StartResult(reg, io, started, exc, monitor, ret, made) ==
    [reg |-> reg, io |-> io, started |-> started, exc |-> exc, monitor |-> monitor,
     ret |-> ret, made |-> made]

start_stream(reg, name, request, env, k, j, pid, t) ==
    LET broadcast_id == BroadcastId(k)
        stream_info == [stream_id |-> StreamId(j), ingestion_address |-> env.address,
                        stream_name |-> "key" \o Str(j)]
        ingestion_url == IngestionUrl(stream_info)
        live_chat_id == env.chat
        Answer(fn, r) == IF env.fail = fn THEN Raised ELSE r
        c1 == Call("create_broadcast",
                   <<request.title, request.description, PrivacyOf(request),
                     IF IsSome(request.scheduled_start_time)
                     THEN IsoFormat(Get(request.scheduled_start_time)) \o "Z" ELSE "">>,
                   Answer("create_broadcast", broadcast_id))
        c2 == Call("create_stream", <<name, Text(request.resolution), Text(request.bitrate)>>,
                   Answer("create_stream", stream_info.stream_id))
        c3 == Call("bind", <<broadcast_id, stream_info.stream_id>>, Answer("bind", ""))
        c4 == Call("get_live_chat_id", <<broadcast_id>>,
                   Answer("get_live_chat_id",
                          IF IsSome(live_chat_id) THEN Get(live_chat_id) ELSE "None"))
        s0 == append_log(NewSession(name, broadcast_id, stream_info.stream_id,
                                    ingestion_url, live_chat_id, request),
                         "Session configured and bound.", t)
        L == IF ~IsSome(request.scheduled_start_time)
             THEN launch_ffmpeg(s0, pid, [popen |-> env.fail # "popen",
                                          live |-> env.fail # "live"], t)
             ELSE Result(s0, <<>>, {}, NoError)
        io4 == <<c1, c2, c3, c4>>
        chat == IF IsSome(live_chat_id)
                THEN <<Call("add_live_chat_message",
                            <<Get(live_chat_id), "Streaming bot connected.">>,
                            Answer("chat", ""))>>
                ELSE <<>>
        note == Notify("Stream " \o name \o " configured",
                       "Broadcast " \o broadcast_id \o " is ready with ingestion "
                           \o ingestion_url \o ".")
    IN IF env.fail = "create_broadcast"
       THEN StartResult(reg, <<c1>>, {}, HttpError, FALSE, "", <<0, <<>>>>)
       ELSE IF env.fail = "create_stream"
       THEN StartResult(reg, <<c1, c2>>, {}, HttpError, FALSE, "", <<1, <<>>>>)
       ELSE IF env.fail = "bind"
       THEN StartResult(reg, <<c1, c2, c3>>, {}, HttpError, FALSE, "", <<1, <<stream_info>>>>)
       ELSE IF env.fail = "get_live_chat_id"
       THEN StartResult(reg, io4, {}, HttpError, FALSE, "", <<1, <<stream_info>>>>)
       ELSE IF L.exc # NoError
       THEN StartResult(Register(reg, L.s), io4 \o L.io, L.started, L.exc, FALSE, "",
                        <<1, <<stream_info>>>>)
       ELSE IF env.fail = "chat" /\ IsSome(live_chat_id)
       THEN StartResult(Register(reg, L.s), io4 \o L.io \o chat, L.started, HttpError,
                        FALSE, "", <<1, <<stream_info>>>>)
       ELSE StartResult(Register(reg, L.s), io4 \o L.io \o chat \o <<note>>, L.started,
                        NoError, TRUE, broadcast_id, <<1, <<stream_info>>>>)

\* the ways one run of start_stream can go
StartFailures ==
    {"none", "create_broadcast", "create_stream", "bind", "get_live_chat_id",
     "popen", "live", "chat"}
StartEnvs ==
    {env \in [fail : StartFailures, chat : ChatIds, address : IngestionAddresses] :
        \* an answer that is never received is left at its first value
        /\ env.fail \in {"create_broadcast", "create_stream", "bind", "get_live_chat_id"}
              => env.chat = None
        /\ env.fail = "chat" => env.chat # None}

(* ------------------------------- stop_stream --------------------------- *)

\* env.complete: whether transition("complete") succeeds.  The kill command
\* is taken to start and deliver its signal (its failure is only logged).
stop_stream(s, reason, env, t) ==
    LET hasPid == IsSome(s.ffmpeg_process_pid)
        s1 == IF hasPid THEN append_log(s, "Stopping ffmpeg process.", t) ELSE s
        kill == IF hasPid THEN <<Kill(Get(s.ffmpeg_process_pid))>> ELSE <<>>
        done == Call("transition", <<s.broadcast_id, "complete">>,
                     IF env.complete THEN "" ELSE Raised)
        note == Notify("Stream " \o s.name \o " stopped", reason)
    IN IF ~env.complete THEN Result(s1, kill \o <<done>>, {}, HttpError)
       ELSE Result([s1 EXCEPT !.status = "stopped"], kill \o <<done, note>>, {}, NoError)

StopEnvs == [complete : BOOLEAN]

(* ----------------------------- _monitor_session ------------------------ *)

\* the condition of the monitor's while loop
keeps_monitoring(s) == s.status \in {"configured", "streaming"}

\* the rule with "and" for "or"
needs_reconnect_both(health) == health.status # "active" /\ health.health = "error"

\* if health["status"] != "active" or health["health"] == "error"
needs_reconnect(health) == health.status # "active" \/ health.health = "error"

HealthText(health) ==
    "{'status': '" \o health.status \o "', 'health': '" \o health.health \o "'}"

\* One pass through the loop body, from the return of asyncio.sleep to the
\* next evaluation of the loop condition.  env.poll / env.metrics: whether
\* the two polls succeed; env.health, env.viewers: what they answer.
monitor_iteration(s, pid, env, t) ==
    LET s1 == [s EXCEPT !.last_healthcheck = Some(t)]
        c1 == Call("get_stream_health", <<s.stream_id>>,
                   IF env.poll THEN HealthText(env.health) ELSE Raised)
        s2 == append_log(s1, "Health: " \o HealthText(env.health), t)
        R == IF needs_reconnect(env.health)
             THEN handle_reconnect(s2, pid, env, t)
             ELSE Result(s2, <<>>, {}, NoError)
        c2 == Call("get_broadcast_metrics", <<s.broadcast_id>>,
                   IF ~env.metrics THEN Raised
                   ELSE IF IsSome(env.viewers) THEN Get(env.viewers) ELSE "None")
        s3 == IF IsSome(env.viewers)
              THEN append_log(R.s, "Viewers: " \o Get(env.viewers), t)
              ELSE R.s
    IN IF ~env.poll THEN Result(s1, <<c1>>, {}, HttpError)
       ELSE IF R.exc # NoError THEN [R EXCEPT !.io = <<c1>> \o @]
       ELSE IF ~env.metrics THEN Result(R.s, <<c1>> \o R.io \o <<c2>>, R.started, HttpError)
       ELSE Result(s3, <<c1>> \o R.io \o <<c2>>, R.started, NoError)

Healthy == [status |-> "active", health |-> "good"]
Degraded == [status |-> "inactive", health |-> "error"]
MonitorEnvs ==
    {env \in [poll : BOOLEAN, health : HealthReplies, popen : BOOLEAN, live : BOOLEAN,
              metrics : BOOLEAN, viewers : MetricsReplies] :
        \* a call that is never made, or whose answer is never received, succeeds
        \* with its first answer
        /\ ~env.poll => env.health = Healthy
        /\ ~(env.poll /\ needs_reconnect(env.health)) => env.popen /\ env.live
        \* the failures are tried with one healthy and one degraded answer
        /\ ~(env.popen /\ env.live /\ env.metrics) => env.health \in {Healthy, Degraded}
        /\ ~env.popen => env.live
        /\ ~(env.poll /\ env.popen /\ env.live) => env.metrics
        /\ ~(env.poll /\ env.popen /\ env.live /\ env.metrics) => env.viewers = None}

(* ------------------------------ schedule_stream ------------------------ *)

\* id=f"{name}-{request.scheduled_start_time.isoformat()}"
JobId(name, request) == name \o "-" \o IsoFormat(Get(request.scheduled_start_time))

\* add_job that keeps a job of the same id
add_job_keeping(js, name, request) ==
    js \cup {[id |-> JobId(name, request), name |-> name, request |-> request,
              run_date |-> Get(request.scheduled_start_time)]}

\* self.scheduler.add_job(.., trigger="date", run_date=.., id=.., replace_existing=True)
add_job(js, name, request) ==
    LET job == [id |-> JobId(name, request), name |-> name, request |-> request,
                run_date |-> Get(request.scheduled_start_time)]
    IN {x \in js : x.id # job.id} \cup {job}

(* -------------------------------- update_content ----------------------- *)

\* update_content that logs and leaves the content as it was
update_content_unapplied(s, content, t) ==
    append_log(s, "Content updated for next restart.", t)

update_content(s, content, t) ==
    append_log([s EXCEPT !.requested.content = content],
               "Content updated for next restart.", t)

(* ---------------------------------- get_status ------------------------- *)

\* session.log[-10:]
TailLen == 10
\* session.log[:10], the first entries instead of the last
log_head(log) == SubSeq(log, 1, IF Len(log) > TailLen THEN TailLen ELSE Len(log))

log_tail(log) == SubSeq(log, IF Len(log) > TailLen THEN Len(log) - TailLen + 1 ELSE 1, Len(log))

status_view(s, health, viewers) ==
    [status |-> s.status,
     started_at |-> IF IsSome(s.started_at) THEN Some(IsoFormat(Get(s.started_at))) ELSE None,
     reconnect_attempts |-> s.reconnect_attempts,
     analytics |-> [concurrent_viewers |-> viewers, health_status |-> health.health],
     log_tail |-> log_tail(s.log)]

StatusEnvs ==
    {env \in [poll : BOOLEAN, health : HealthReplies, metrics : BOOLEAN,
              viewers : MetricsReplies] :
        /\ env.health \in {Healthy, Degraded}
        /\ ~env.poll => env.health = Healthy /\ env.metrics
        /\ ~(env.poll /\ env.metrics) => env.viewers = None
        /\ env.poll => (env.viewers = None <=> env.health = Degraded)}

(* ------------------- get_status and the chat passthroughs -------------- *)

\* the status of the session a handler is given, as the handler finds it
Before(target) == IF target \in DOMAIN sessions THEN sessions[target].status ELSE ""

\* the record kept of one handler run (see the state below)
StepOf(op, target, args, exc, io, view) ==
    [op |-> op, by |-> "caller", target |-> target, before |-> Before(target),
     args |-> args, exc |-> exc, io |-> io, ret |-> "", view |-> view]

get_status(reg, broadcast_id, env) ==
    IF broadcast_id \notin DOMAIN reg
    THEN StepOf("get_status", broadcast_id, None, ValueError("Unknown session"), <<>>, None)
    ELSE LET s == reg[broadcast_id]
             c1 == Call("get_stream_health", <<s.stream_id>>,
                        IF env.poll THEN HealthText(env.health) ELSE Raised)
             c2 == Call("get_broadcast_metrics", <<s.broadcast_id>>,
                        IF ~env.metrics THEN Raised
                        ELSE IF IsSome(env.viewers) THEN Get(env.viewers) ELSE "None")
         IN IF ~env.poll
            THEN StepOf("get_status", broadcast_id, None, HttpError, <<c1>>, None)
            ELSE IF ~env.metrics
            THEN StepOf("get_status", broadcast_id, None, HttpError, <<c1, c2>>, None)
            ELSE StepOf("get_status", broadcast_id, None, NoError, <<c1, c2>>,
                        Some(status_view(s, env.health, env.viewers)))

\* ok: whether the gateway call, if one is made, succeeds
post_live_chat_message(reg, broadcast_id, message, ok) ==
    IF broadcast_id \in DOMAIN reg /\ IsSome(reg[broadcast_id].live_chat_id)
    THEN StepOf("post_live_chat_message", broadcast_id, Some(message),
                IF ok THEN NoError ELSE HttpError,
                <<Call("add_live_chat_message",
                       <<Get(reg[broadcast_id].live_chat_id), message>>,
                       IF ok THEN "" ELSE Raised)>>, None)
    ELSE StepOf("post_live_chat_message", broadcast_id, Some(message), NoError, <<>>, None)

disable_chat(reg, broadcast_id, ok) ==
    IF broadcast_id \in DOMAIN reg
    THEN StepOf("disable_chat", broadcast_id, None, IF ok THEN NoError ELSE HttpError,
                <<Call("disable_live_chat", <<reg[broadcast_id].broadcast_id>>,
                       IF ok THEN "" ELSE Raised)>>, None)
    ELSE StepOf("disable_chat", broadcast_id, None, NoError, <<>>, None)

(* ------------------------------- the state ----------------------------- *)

\* sessions     self.sessions: broadcast identifier -> StreamSession
\* monitors     the _monitor_session tasks: broadcast identifier -> where the
\*              task is ("created", "sleeping", "done": returned, "failed": raised)
\* jobs         the scheduler's pending jobs
\* procs        the encoder processes that are running
\* nBroadcasts  how many broadcasts the platform has created
\* streams      the streams the platform has created, in order
\* nextPid      the process identifier the operating system hands out next
\* now          the clock
\* step         what the last handler run was and did:
\*   op, by   the handler and who ran it (a caller, the scheduler, a monitor task)
\*   target   the broadcast identifier or stream name it was given
\*   before   the status it found the session of that identifier in, "" if none
\*   args     the request, content or message it was given, if any
\*   exc      the exception it raised, NoError when it returned
\*   io       its effects on the outside world, in order
\*   ret      the identifier it returned ("" when none), view: get_status's answer
Step(op, by, target, args, exc, io, ret, view) ==
    [op |-> op, by |-> by, target |-> target, before |-> Before(target), args |-> args,
     exc |-> exc, io |-> io, ret |-> ret, view |-> view]

\* the encoder processes a handler's kill signals end
Killed(io) ==
    {p \in procs : \E i \in 1..Len(io) : io[i].kind = "kill" /\ io[i].a = Str(p.pid)}

\* the keys of the pending jobs
JobIds(js) == {job.id : job \in js}

Init ==
    /\ sessions = <<>>
    /\ monitors = <<>>
    /\ jobs = {}
    /\ procs = {}
    /\ nBroadcasts = 0
    /\ streams = <<>>
    /\ nextPid = 1
    /\ now = 0
    /\ step = Step("init", "caller", "", None, NoError, <<>>, "", None)

\* start_stream, run by its caller or by a scheduler job
RunStart(by, name, request, env) ==
    LET R == start_stream(sessions, name, request, env, nBroadcasts + 1, Len(streams) + 1,
                          nextPid, now)
    IN /\ sessions' = R.reg
       /\ monitors' = IF R.monitor
                      THEN [b \in DOMAIN monitors \cup {R.ret} |->
                               IF b = R.ret THEN "created" ELSE monitors[b]]
                      ELSE monitors
       /\ procs' = procs \cup R.started
       /\ nBroadcasts' = nBroadcasts + R.made[1]
       /\ streams' = streams \o R.made[2]
       /\ nextPid' = nextPid + Cardinality(R.started)
       /\ step' = Step("start_stream", by, name, Some(request), R.exc, R.io, R.ret, None)

StartStream(name, request, env) ==
    /\ nBroadcasts + Cardinality(JobIds(jobs)) < MaxBroadcasts
    /\ RunStart("caller", name, request, env)
    /\ UNCHANGED <<jobs, now>>

\* the scheduler runs a job whose run_date has come, once
FireJob(job, env) ==
    /\ job \in jobs
    /\ now >= job.run_date
    /\ jobs' = jobs \ {job}
    /\ RunStart("scheduler", job.name, job.request, env)
    /\ UNCHANGED now

\* stop_stream on an identifier that is not registered ends with exc
StopUnknown(broadcast_id, exc) ==
    /\ step' = Step("stop_stream", "caller", broadcast_id, None, exc, <<>>, "", None)
    /\ UNCHANGED <<sessions, monitors, jobs, procs, nBroadcasts, streams, nextPid, now>>

StopKnown(broadcast_id, env) ==
    LET R == stop_stream(sessions[broadcast_id], "manual stop", env, now)
    IN /\ Len(R.s.log) <= MaxLog
       /\ sessions' = [sessions EXCEPT ![broadcast_id] = R.s]
       /\ procs' = procs \ Killed(R.io)
       /\ step' = Step("stop_stream", "caller", broadcast_id, None, R.exc, R.io, "", None)
       /\ UNCHANGED <<monitors, jobs, nBroadcasts, streams, nextPid, now>>

\* stop_stream that treats an unregistered identifier as the other handlers do
StopStreamRaises(broadcast_id, env) ==
    IF broadcast_id \notin DOMAIN sessions
    THEN StopUnknown(broadcast_id, ValueError("Unknown session"))
    ELSE StopKnown(broadcast_id, env)

StopStream(broadcast_id, env) ==
    IF broadcast_id \notin DOMAIN sessions
    THEN StopUnknown(broadcast_id, NoError)
    ELSE StopKnown(broadcast_id, env)

\* a monitor task's first run: up to its first asyncio.sleep
MonitorStart(broadcast_id) ==
    /\ broadcast_id \in DOMAIN monitors
    /\ monitors[broadcast_id] = "created"
    /\ monitors' = [monitors EXCEPT ![broadcast_id] =
                       IF broadcast_id \in DOMAIN sessions
                          /\ keeps_monitoring(sessions[broadcast_id])
                       THEN "sleeping" ELSE "done"]
    /\ step' = Step("_monitor_session", "monitor", broadcast_id, None, NoError, <<>>, "",
                    None)
    /\ UNCHANGED <<sessions, jobs, procs, nBroadcasts, streams, nextPid, now>>

\* a monitor task's sleep returns: one loop body, then the loop condition
MonitorWake(broadcast_id, env) ==
    /\ broadcast_id \in DOMAIN monitors
    /\ monitors[broadcast_id] = "sleeping"
    /\ LET R == monitor_iteration(sessions[broadcast_id], nextPid, env, now)
       IN /\ Len(R.s.log) <= MaxLog
          /\ sessions' = [sessions EXCEPT ![broadcast_id] = R.s]
          /\ procs' = procs \cup R.started
          /\ nextPid' = nextPid + Cardinality(R.started)
          /\ monitors' = [monitors EXCEPT ![broadcast_id] =
                             IF R.exc # NoError THEN "failed"
                             ELSE IF keeps_monitoring(R.s) THEN "sleeping" ELSE "done"]
          /\ step' = Step("_monitor_session", "monitor", broadcast_id, None, R.exc, R.io,
                          "", None)
    /\ UNCHANGED <<jobs, nBroadcasts, streams, now>>

ScheduleStream(name, request) ==
    IF ~IsSome(request.scheduled_start_time)
    THEN /\ step' = Step("schedule_stream", "caller", name, Some(request),
                         ValueError("scheduled_start_time is required for scheduling."),
                         <<>>, "", None)
         /\ UNCHANGED <<sessions, monitors, jobs, procs, nBroadcasts, streams, nextPid, now>>
    ELSE /\ nBroadcasts + Cardinality(JobIds(jobs) \cup {JobId(name, request)})
               <= MaxBroadcasts
         /\ jobs' = add_job(jobs, name, request)
         /\ step' = Step("schedule_stream", "caller", name, Some(request), NoError,
                         <<AddJob(JobId(name, request),
                                  IsoFormat(Get(request.scheduled_start_time)),
                                  IF JobId(name, request) \in JobIds(jobs)
                                  THEN "replaced" ELSE "added")>>,
                         JobId(name, request), None)
         /\ UNCHANGED <<sessions, monitors, procs, nBroadcasts, streams, nextPid, now>>

UpdateContent(broadcast_id, content) ==
    IF broadcast_id \notin DOMAIN sessions
    THEN /\ step' = Step("update_content", "caller", broadcast_id, Some(content),
                         ValueError("Unknown session"), <<>>, "", None)
         /\ UNCHANGED <<sessions, monitors, jobs, procs, nBroadcasts, streams, nextPid, now>>
    ELSE /\ Len(sessions[broadcast_id].log) < MaxLog
         /\ sessions' = [sessions EXCEPT ![broadcast_id] = update_content(@, content, now)]
         /\ step' = Step("update_content", "caller", broadcast_id, Some(content), NoError,
                         <<>>, "", None)
         /\ UNCHANGED <<monitors, jobs, procs, nBroadcasts, streams, nextPid, now>>

GetStatus(broadcast_id, env) ==
    /\ step' = get_status(sessions, broadcast_id, env)
    /\ UNCHANGED <<sessions, monitors, jobs, procs, nBroadcasts, streams, nextPid, now>>

PostLiveChatMessage(broadcast_id, message, ok) ==
    /\ step' = post_live_chat_message(sessions, broadcast_id, message, ok)
    /\ UNCHANGED <<sessions, monitors, jobs, procs, nBroadcasts, streams, nextPid, now>>

DisableChat(broadcast_id, ok) ==
    /\ step' = disable_chat(sessions, broadcast_id, ok)
    /\ UNCHANGED <<sessions, monitors, jobs, procs, nBroadcasts, streams, nextPid, now>>

\* an encoder process ends by itself
EncoderExit(p) ==
    /\ p \in procs
    /\ procs' = procs \ {p}
    /\ step' = Step("exit", "encoder", p.broadcast_id, None, NoError, <<>>, "", None)
    /\ UNCHANGED <<sessions, monitors, jobs, nBroadcasts, streams, nextPid, now>>

\* time passes; the clock is followed while a job waits for its run_date
Tick ==
    /\ now < MaxTime
    /\ \E job \in jobs : job.run_date > now
    /\ now' = now + 1
    /\ step' = Step("tick", "clock", "", None, NoError, <<>>, "", None)
    /\ UNCHANGED <<sessions, monitors, jobs, procs, nBroadcasts, streams, nextPid>>

Next ==
    \/ \E in \in StartInputs, env \in StartEnvs : StartStream(in[1], in[2], env)
    \/ \E job \in jobs, env \in StartEnvs : FireJob(job, env)
    \/ \E b \in Ids, env \in StopEnvs : StopStream(b, env)
    \/ \E b \in Ids : MonitorStart(b)
    \/ \E b \in Ids, env \in MonitorEnvs : MonitorWake(b, env)
    \/ \E in \in ScheduleInputs : ScheduleStream(in[1], in[2])
    \/ \E b \in Ids, content \in UpdateInputs : UpdateContent(b, content)
    \/ \E b \in Ids, env \in StatusEnvs : GetStatus(b, env)
    \/ \E b \in Ids, msg \in Messages, ok \in BOOLEAN : PostLiveChatMessage(b, msg, ok)
    \/ \E b \in Ids, ok \in BOOLEAN : DisableChat(b, ok)
    \/ \E p \in procs : EncoderExit(p)
    \/ Tick

Spec == Init /\ [][Next]_vars

(* ------------------- the command builder on its own -------------------- *)

\* sequences over S of length lo..hi
SeqsOf(S, lo, hi) == UNION {[1..n -> S] : n \in lo..hi}

\* bitrates "<n>k": one to MaxBitrateLen digits, then k
BitrateDigits == {0, 4, 5, 9}
BitrateOf(ds) == [i \in 1..Len(ds) |-> Digit(ds[i])] \o <<"k">>
SynthBitrates == {BitrateOf(ds) : ds \in SeqsOf(BitrateDigits, 1, MaxBitrateLen)}
SynthResolutions == {<<>>, <<"7", "2", "0", "p">>}
ExtraUrls == {"rtmp://backup/live", "rtmp://other/app"}
SynthRequests ==
    {[Immediate EXCEPT !.bitrate = br, !.resolution = res, !.extra_ingestion_urls = ex] :
        br \in SynthBitrates, res \in SynthResolutions,
        ex \in SeqsOf(ExtraUrls, 0, MaxExtras)}
SynthUrls == {"rtmp://a.rtmp.youtube.com/live2/key1"}

\* a call of the command builder about to be made: the content, the
\* ingestion URL and the request it is given
SynthInit ==
    /\ sessions = <<>>
    /\ monitors = <<>>
    /\ jobs = {}
    /\ procs = {}
    /\ nBroadcasts = 0
    /\ streams = <<>>
    /\ nextPid = 1
    /\ now = 0
    /\ step \in {Step("call", "caller", url,
                       Some([content |-> content, request |-> request]), NoError, <<>>,
                       "", None) :
                     content \in Contents, url \in SynthUrls, request \in SynthRequests}

\* _build_ffmpeg_command(content, ingestion_url, request): step.view holds
\* the arguments it put together and step.ret the command it returned
BuildCommand ==
    /\ step.op = "call"
    /\ LET content == Get(step.args).content
           request == Get(step.args).request
           ingestion_url == step.target
       IN step' = Step("_build_ffmpeg_command", "caller", ingestion_url, step.args,
                       NoError, <<>>,
                       build_ffmpeg_command(content, ingestion_url, request),
                       Some(ffmpeg_args(content, ingestion_url, request)))
    /\ UNCHANGED <<sessions, monitors, jobs, procs, nBroadcasts, streams, nextPid, now>>

SynthNext == BuildCommand

SynthSpec == SynthInit /\ [][SynthNext]_vars

(* ------------------- a session with a long event log ------------------- *)

\* the most calls of update_content a session has seen before
MaxHistory == 12

\* every call of start_stream succeeds and the broadcast has a live chat
AllGood == [fail |-> "none", chat |-> Some("chat"), address |-> "rtmp://a.rtmp.youtube.com/live2"]

\* the session after n calls of update_content, made at the times 1..n
RECURSIVE Updated(_, _)
Updated(s, n) ==
    IF n = 0 THEN s
    ELSE update_content(Updated(s, n - 1), IF n % 2 = 1 THEN Intro ELSE Video, n)

\* start_stream of a request without a scheduled time at time 0, the monitor
\* asleep, then n calls of update_content, the last at time n
HistoryInit ==
    \E n \in 0..MaxHistory :
        LET R == start_stream(<<>>, "demo", Immediate, AllGood, 1, 1, 1, 0)
        IN /\ sessions = [R.reg EXCEPT ![R.ret] = Updated(@, n)]
           /\ monitors = [b \in {R.ret} |-> "sleeping"]
           /\ jobs = {}
           /\ procs = R.started
           /\ nBroadcasts = R.made[1]
           /\ streams = R.made[2]
           /\ nextPid = 1 + Cardinality(R.started)
           /\ now = n
           /\ step = [op |-> "history", by |-> "caller", target |-> R.ret,
                      before |-> "streaming", args |-> None, exc |-> NoError, io |-> <<>>,
                      ret |-> "", view |-> None]

\* no handler has run on the session since
Fresh == step.op = "history"

\* update_content on that session
UpdateLater(broadcast_id, content) ==
    /\ Fresh
    /\ broadcast_id \in DOMAIN sessions
    /\ sessions' = [sessions EXCEPT ![broadcast_id] = update_content(@, content, now)]
    /\ step' = Step("update_content", "caller", broadcast_id, Some(content), NoError,
                    <<>>, "", None)
    /\ UNCHANGED <<monitors, jobs, procs, nBroadcasts, streams, nextPid, now>>

\* stop_stream on that session
StopLater(broadcast_id, env) ==
    /\ Fresh
    /\ broadcast_id \in DOMAIN sessions
    /\ LET R == stop_stream(sessions[broadcast_id], "manual stop", env, now)
       IN /\ sessions' = [sessions EXCEPT ![broadcast_id] = R.s]
          /\ procs' = procs \ Killed(R.io)
          /\ step' = Step("stop_stream", "caller", broadcast_id, None, R.exc, R.io, "",
                          None)
    /\ UNCHANGED <<monitors, jobs, nBroadcasts, streams, nextPid, now>>

\* one iteration of that session's monitor
MonitorLater(broadcast_id, env) ==
    /\ Fresh
    /\ broadcast_id \in DOMAIN monitors
    /\ monitors[broadcast_id] = "sleeping"
    /\ LET R == monitor_iteration(sessions[broadcast_id], nextPid, env, now)
       IN /\ sessions' = [sessions EXCEPT ![broadcast_id] = R.s]
          /\ procs' = procs \cup R.started
          /\ nextPid' = nextPid + Cardinality(R.started)
          /\ monitors' = [monitors EXCEPT ![broadcast_id] =
                             IF R.exc # NoError THEN "failed"
                             ELSE IF keeps_monitoring(R.s) THEN "sleeping" ELSE "done"]
          /\ step' = Step("_monitor_session", "monitor", broadcast_id, None, R.exc, R.io,
                          "", None)
    /\ UNCHANGED <<jobs, nBroadcasts, streams, now>>

\* get_status on that session
StatusLater(broadcast_id, env) ==
    /\ Fresh
    /\ GetStatus(broadcast_id, env)

HistoryNext ==
    \/ \E b \in Ids, content \in Contents : UpdateLater(b, content)
    \/ \E b \in Ids, env \in StopEnvs : StopLater(b, env)
    \/ \E b \in Ids, env \in MonitorEnvs : MonitorLater(b, env)
    \/ \E b \in Ids, env \in StatusEnvs : StatusLater(b, env)

HistorySpec == HistoryInit /\ [][HistoryNext]_vars

(* ------------------------------ the claims ----------------------------- *)

\* the encoder processes running for a session
EncodersOf(b) == {p \in procs : p.broadcast_id = b}

\* the last step is a run of session b's monitor task
MonitorStepOn(b) == step.by = "monitor" /\ step.target = b

\* a health poll among the effects io answered activity not "active" or health "error"
PolledDegraded(io) ==
    \E i \in 1..Len(io) :
        /\ io[i].kind = "call"
        /\ io[i].a = "get_stream_health"
        /\ \E h \in HealthReplies :
              /\ h.status # "active" \/ h.health = "error"
              /\ io[i].r = HealthText(h)

\* the edges of the session lifecycle
StatusEdges ==
    {<<"pending", "configured">>, <<"configured", "streaming">>,
     <<"streaming", "reconnecting">>, <<"reconnecting", "streaming">>}
        \cup ({"configured", "streaming", "reconnecting"} \X {"stopped", "failed"})

\* C1: in every step a session's status changes only along the edges of the
\* lifecycle: pending->configured, configured->streaming,
\* streaming->reconnecting, reconnecting->streaming, and configured,
\* streaming or reconnecting to stopped or failed; a stopped or failed
\* session never changes status.
C1_StatusFollowsEdges ==
    [][\A b \in DOMAIN sessions :
          sessions'[b].status # sessions[b].status
              => <<sessions[b].status, sessions'[b].status>> \in StatusEdges]_vars

\* C2: once stop_stream has completed for a session, the session stays
\* stopped and no later step of its monitor launches an encoder for it.
C2_StopWins ==
    [][\A b \in DOMAIN sessions :
          sessions[b].status = "stopped"
              => /\ sessions'[b].status = "stopped"
                 /\ ~(MonitorStepOn(b)' /\ Events(step'.io, "popen") # <<>>)]_vars

\* C3: in every reachable state each session has at most one running
\* encoder process.
C3_OneEncoderPerSession ==
    \A b \in DOMAIN sessions : Cardinality(EncodersOf(b)) <= 1

\* C4: a run of start_stream in which a gateway call fails leaves the
\* registry as it was.
C4_FailedStartRegistersNothing ==
    [][step'.op = "start_stream" /\ step'.exc = HttpError => sessions' = sessions]_vars

\* C5: in every reachable state a registered session that is configured,
\* streaming or reconnecting has a monitor task that has not ended.
C5_ActiveSessionIsMonitored ==
    \A b \in DOMAIN sessions :
        sessions[b].status \in {"configured", "streaming", "reconnecting"}
            => b \in DOMAIN monitors /\ monitors[b] \in {"created", "sleeping"}

\* C6: after start_stream has returned for a request without a scheduled
\* start time, the session it returns is registered under its broadcast
\* identifier, is streaming, holds the handle of its one running encoder,
\* has made no reconnect attempt, and its ingestion URL is the ingestion
\* address and the stream name of the stream the platform created for it,
\* joined by "/".
C6_ImmediateStart ==
    (step.op = "start_stream" /\ step.exc = NoError
        /\ ~IsSome(Get(step.args).scheduled_start_time))
    => /\ step.ret \in DOMAIN sessions
       /\ LET s == sessions[step.ret]
          IN /\ s.broadcast_id = step.ret
             /\ s.status = "streaming"
             /\ IsSome(s.ffmpeg_process_pid)
             /\ Cardinality(EncodersOf(step.ret)) = 1
             /\ \A p \in EncodersOf(step.ret) : p.pid = Get(s.ffmpeg_process_pid)
             /\ s.reconnect_attempts = 0
             /\ \E j \in 1..Len(streams) :
                   /\ streams[j].stream_id = s.stream_id
                   /\ s.ingestion_url =
                        streams[j].ingestion_address \o "/" \o streams[j].stream_name
C6_Witness ==
    /\ step.op = "start_stream" /\ step.exc = NoError
    /\ ~IsSome(Get(step.args).scheduled_start_time)
    /\ step.ret \in DOMAIN sessions
    /\ Events(step.io, "popen") # <<>>

\* what C7 promises of one monitor iteration on session b
OneReconnectCycle(b) ==
    /\ sessions'[b].reconnect_attempts = sessions[b].reconnect_attempts + 1
    /\ Len(Events(step'.io, "popen")) = 1
    /\ IsSome(sessions'[b].ffmpeg_process_pid)
    /\ sessions'[b].ffmpeg_process_pid # sessions[b].ffmpeg_process_pid
    /\ \A i \in 1..Len(step'.io) :
          step'.io[i].kind = "popen"
              => step'.io[i].r = Str(Get(sessions'[b].ffmpeg_process_pid))
    /\ \E p \in procs' \ procs :
          p.broadcast_id = b /\ p.pid = Get(sessions'[b].ffmpeg_process_pid)
    /\ sessions'[b].status = "streaming"

\* the encoder process could not be started
LaunchFailed(exc) == exc = OSError \/ (exc # NoError /\ exc[1] = "ValueError")

\* C7: every monitor iteration on a streaming session whose poll answers
\* activity not "active" or health "error" adds one to the reconnect count,
\* launches one new encoder and records its handle, and leaves the session
\* streaming.
C7_OneReconnectCycle ==
    [][\A b \in DOMAIN sessions :
          (MonitorStepOn(b)' /\ sessions[b].status = "streaming"
              /\ PolledDegraded(step'.io))
          => OneReconnectCycle(b)]_vars

\* C7, of the iterations in which the encoder process starts: such a monitor
\* iteration on a streaming session whose poll answers activity not "active"
\* or health "error" adds one to the reconnect count, launches one new
\* encoder and records its handle, and leaves the session streaming.
C7_OneReconnectCycleWhenStarted ==
    [][\A b \in DOMAIN sessions :
          (MonitorStepOn(b)' /\ sessions[b].status = "streaming"
              /\ PolledDegraded(step'.io) /\ ~LaunchFailed(step'.exc))
          => OneReconnectCycle(b)]_vars
C7_Witness ==
    /\ step.by = "monitor" /\ step.before = "streaming"
    /\ PolledDegraded(step.io)
    /\ Events(step.io, "popen") # <<>>
    /\ sessions[step.target].reconnect_attempts = 1

\* C8: a session's reconnect count is 0 when the session is registered and
\* no step decreases it.
C8_ReconnectCountMonotone ==
    [][\A b \in DOMAIN sessions' :
          IF b \in DOMAIN sessions
          THEN sessions'[b].reconnect_attempts >= sessions[b].reconnect_attempts
          ELSE sessions'[b].reconnect_attempts = 0]_vars
C8_Witness ==
    \E b \in DOMAIN sessions :
        /\ sessions[b].reconnect_attempts >= 1
        /\ step.op = "stop_stream" /\ step.target = b /\ step.exc = NoError

\* C9: on an identifier that is not registered, get_status raises the
\* unknown-session error, and stop_stream returns with no effect: no gateway
\* call, notification or signal, and the registry, the sessions, the encoder
\* processes, the monitors and the jobs as they were.
C9_UnknownIdentifier ==
    [][/\ (step'.op = "get_status" /\ step'.target \notin DOMAIN sessions)
            => /\ step'.exc = ValueError("Unknown session")
               /\ step'.io = <<>>
               /\ UNCHANGED <<sessions, monitors, jobs, procs>>
       /\ (step'.op = "stop_stream" /\ step'.target \notin DOMAIN sessions)
            => /\ step'.exc = NoError
               /\ step'.io = <<>>
               /\ UNCHANGED <<sessions, monitors, jobs, procs>>]_vars
C9_Witness ==
    /\ step.op = "stop_stream"
    /\ step.target \notin DOMAIN sessions
    /\ \E b \in DOMAIN sessions : sessions[b].status = "streaming" /\ EncodersOf(b) # {}

\* C10: schedule_stream without a scheduled start time raises and leaves
\* the jobs as they were; with one it leaves exactly one pending job under
\* the key name-time, holding the request just given, and the other jobs as
\* they were; no two pending jobs ever share a key, and a job that fires is
\* no longer pending.
C10_ScheduleReplaces ==
    [][/\ \A j1, j2 \in jobs' : j1.id = j2.id => j1 = j2
       /\ (step'.op = "schedule_stream" /\ ~IsSome(Get(step'.args).scheduled_start_time))
            => /\ step'.exc = ValueError("scheduled_start_time is required for scheduling.")
               /\ jobs' = jobs
       /\ (step'.op = "schedule_stream" /\ IsSome(Get(step'.args).scheduled_start_time))
            => LET key == step'.target \o "-"
                            \o IsoFormat(Get(Get(step'.args).scheduled_start_time))
               IN /\ step'.exc = NoError
                  /\ step'.ret = key
                  /\ {j \in jobs' : j.id = key}
                        = {[id |-> key, name |-> step'.target, request |-> Get(step'.args),
                            run_date |-> Get(Get(step'.args).scheduled_start_time)]}
                  /\ {j \in jobs' : j.id # key} = {j \in jobs : j.id # key}
       /\ step'.by = "scheduler"
            => \E job \in jobs : jobs' = jobs \ {job} /\ job.id \notin JobIds(jobs')]_vars
C10_Witness ==
    /\ step.op = "schedule_stream" /\ step.exc = NoError
    /\ Events(step.io, "add_job") # <<>>
    /\ step.io[1].r = "replaced"
    /\ Get(step.args) = Rescheduled
    /\ Cardinality(jobs) = 1
    /\ \A j \in jobs : j.request = Rescheduled

\* the encoder commands among a step's effects, in order
CommandsFor(io) == [i \in 1..Len(Events(io, "popen")) |-> Events(io, "popen")[i].a]

\* C11: update_content on an identifier that is not registered raises the
\* unknown-session error and changes nothing; on a registered session it
\* replaces the content of the session's request and appends one log entry,
\* and leaves every other field of the session, every other session and the
\* running encoders as they were; and every encoder a monitor step launches
\* for a session is given the command built from the content the session's
\* request holds when the step begins.
C11_UpdateContent ==
    [][/\ (step'.op = "update_content" /\ step'.target \notin DOMAIN sessions)
            => /\ step'.exc = ValueError("Unknown session")
               /\ step'.io = <<>>
               /\ UNCHANGED <<sessions, monitors, jobs, procs>>
       /\ (step'.op = "update_content" /\ step'.target \in DOMAIN sessions)
            => LET b == step'.target
                   s == sessions[b]
               IN /\ step'.exc = NoError
                  /\ step'.io = <<>>
                  /\ DOMAIN sessions' = DOMAIN sessions
                  /\ \A o \in DOMAIN sessions \ {b} : sessions'[o] = sessions[o]
                  /\ sessions'[b].requested.content = Get(step'.args)
                  /\ sessions'[b].requested =
                        [s.requested EXCEPT !.content = Get(step'.args)]
                  /\ Len(sessions'[b].log) = Len(s.log) + 1
                  /\ SubSeq(sessions'[b].log, 1, Len(s.log)) = s.log
                  /\ [sessions'[b] EXCEPT !.requested = s.requested, !.log = s.log] = s
                  /\ UNCHANGED <<monitors, jobs, procs>>
       /\ \A b \in DOMAIN sessions :
             MonitorStepOn(b)'
                => \A i \in 1..Len(CommandsFor(step'.io)) :
                      CommandsFor(step'.io)[i] =
                          build_ffmpeg_command(sessions[b].requested.content,
                                               sessions[b].ingestion_url,
                                               sessions'[b].requested)]_vars
\* a session scheduled with the looping video, given the intro since, is
\* launched by its monitor with the intro as input
C11_Witness ==
    /\ step.by = "monitor"
    /\ step.target \in DOMAIN sessions
    /\ Rescheduled.content = Video
    /\ sessions[step.target].requested = [Rescheduled EXCEPT !.content = Intro]
    /\ Len(CommandsFor(step.io)) = 1
    /\ CommandsFor(step.io)[1] =
          Join(<<"ffmpeg", "-re", "-i", "intro.mp4">>
                 \o <<"-c:v", "libx264", "-preset", "veryfast", "-b:v", "2500k",
                      "-maxrate", "2500k", "-bufsize", "5000k", "-pix_fmt", "yuv420p",
                      "-c:a", "aac", "-ar", "44100", "-b:a", "160k",
                      "-vf", "scale=-2:720">>
                 \o output_args(sessions[step.target].ingestion_url, Rescheduled), " ")

\* C12: post_live_chat_message and disable_chat make no gateway call, and
\* return, whenever the identifier is not registered or the session has no
\* live-chat identifier.
C12_ChatPassthroughs ==
    [][(/\ step'.op \in {"post_live_chat_message", "disable_chat"}
        /\ \/ step'.target \notin DOMAIN sessions
           \/ ~IsSome(sessions[step'.target].live_chat_id))
       => step'.io = <<>> /\ step'.exc = NoError]_vars
\* post_live_chat_message alone does keep to it
C12_PostIsGuarded ==
    [][(/\ step'.op = "post_live_chat_message"
        /\ \/ step'.target \notin DOMAIN sessions
           \/ ~IsSome(sessions[step'.target].live_chat_id))
       => step'.io = <<>> /\ step'.exc = NoError]_vars

\* no step removes a session from the registry or puts another in its place
RegistryKept ==
    \A b \in DOMAIN sessions :
        /\ b \in DOMAIN sessions'
        /\ sessions'[b].broadcast_id = sessions[b].broadcast_id
        /\ sessions'[b].stream_id = sessions[b].stream_id
        /\ sessions'[b].name = sessions[b].name
        /\ sessions'[b].ingestion_url = sessions[b].ingestion_url

\* a stop_stream that completes leaves its session registered and stopped
StopLeavesStopped ==
    (step'.op = "stop_stream" /\ step'.target \in DOMAIN sessions /\ step'.exc = NoError)
        => /\ step'.target \in DOMAIN sessions'
           /\ sessions'[step'.target].status = "stopped"

\* get_status on a registered session knows the session, and when the
\* platform answers its polls it reports the status the session has
StatusReported ==
    (step'.op = "get_status" /\ step'.target \in DOMAIN sessions)
        => /\ step'.exc \in {NoError, HttpError}
           /\ step'.exc = NoError
                 => /\ IsSome(step'.view)
                    /\ Get(step'.view).status = sessions[step'.target].status

\* C13: the registry only grows: no step removes or replaces a registered
\* session; a completed stop_stream leaves the session registered with
\* status stopped, the session keeps that status in every later step, and
\* get_status on it is answered with the status it has, so that get_status
\* after stop_stream reports stopped.
C13_RegistryOnlyGrows ==
    [][/\ RegistryKept
       /\ StopLeavesStopped
       /\ \A b \in DOMAIN sessions :
             sessions[b].status = "stopped" => sessions'[b].status = "stopped"
       /\ StatusReported]_vars
\* all of it but the keeping of the status stopped
C13_RegistryKeptAndReported ==
    [][RegistryKept /\ StopLeavesStopped /\ StatusReported]_vars

\* the last step is a run of the command builder
Built == step.op = "_build_ffmpeg_command"
\* the arguments it put together, and those from the n-th on
BuiltArgs == Get(step.view)
ArgsFrom(n) == SubSeq(BuiltArgs, n, Len(BuiltArgs))
\* the argument that follows the one occurrence of flag
ArgAfter(flag) ==
    LET at == {i \in 1..Len(BuiltArgs) : BuiltArgs[i] = flag}
    IN IF Cardinality(at) = 1 /\ (CHOOSE i \in at : TRUE) < Len(BuiltArgs)
       THEN Some(BuiltArgs[(CHOOSE i \in at : TRUE) + 1])
       ELSE None

\* the legs of a tee, written out: each destination behind the modifier that
\* lets the others go on when it fails, the legs parted by "|"
RECURSIVE TeeLegs(_)
TeeLegs(dests) ==
    IF Len(dests) = 1 THEN "[f=flv:onfail=ignore]" \o dests[1]
    ELSE TeeLegs(SubSeq(dests, 1, Len(dests) - 1))
            \o "|" \o "[f=flv:onfail=ignore]" \o dests[Len(dests)]

\* C14: the command ends in its output: with no extra destination a single
\* flv output to the primary ingestion URL; with N >= 1 extra destinations
\* one tee output of N+1 legs, the primary first and the extras after it in
\* the order given, each leg with the onfail=ignore modifier.
C14_FanOut ==
    Built =>
        LET primary == step.target
            extras == Get(step.args).request.extra_ingestion_urls
            n == Len(BuiltArgs)
        IN /\ n >= 3
           /\ Cardinality({i \in 1..n : BuiltArgs[i] = "-f"}) = 1
           /\ IF extras = <<>>
              THEN ArgsFrom(n - 2) = <<"-f", "flv", primary>>
              ELSE ArgsFrom(n - 2) =
                      <<"-f", "tee", "\"" \o TeeLegs(<<primary>> \o extras) \o "\"">>
C14_Witness ==
    /\ Built
    /\ Get(step.args).request.extra_ingestion_urls
          = <<"rtmp://other/app", "rtmp://backup/live">>
    /\ ArgAfter("-f") = Some("tee")
    /\ BuiltArgs[Len(BuiltArgs)] =
          "\"[f=flv:onfail=ignore]rtmp://a.rtmp.youtube.com/live2/key1"
             \o "|[f=flv:onfail=ignore]rtmp://other/app"
             \o "|[f=flv:onfail=ignore]rtmp://backup/live\""

\* the number digits written most significant first stand for
RECURSIVE ValueOf(_)
ValueOf(ds) ==
    IF ds = <<>> THEN 0 ELSE 10 * ValueOf(SubSeq(ds, 1, Len(ds) - 1)) + ds[Len(ds)]

\* C15: for a bitrate <n>k the command sets -b:v and -maxrate to the
\* bitrate as given and -bufsize to <2n>k; and the arguments begin with
\* the loop directive -stream_loop -1 exactly when the content is a loop,
\* followed by -re -i and the source.
C15_RateControl ==
    Built =>
        LET request == Get(step.args).request
            content == Get(step.args).content
        IN /\ \E ds \in SeqsOf(BitrateDigits, 1, MaxBitrateLen) :
                 /\ request.bitrate = BitrateOf(ds)
                 /\ ArgAfter("-b:v") = Some(Text(BitrateOf(ds)))
                 /\ ArgAfter("-maxrate") = Some(Text(BitrateOf(ds)))
                 /\ ArgAfter("-bufsize") = Some(Str(2 * ValueOf(ds)) \o "k")
           /\ BuiltArgs[1] = "ffmpeg"
           /\ IF content.is_loop
              THEN SubSeq(BuiltArgs, 2, 6) = <<"-stream_loop", "-1", "-re", "-i", content.source>>
              ELSE /\ SubSeq(BuiltArgs, 2, 4) = <<"-re", "-i", content.source>>
                   /\ \A i \in 1..Len(BuiltArgs) : BuiltArgs[i] # "-stream_loop"
C15_Witness ==
    /\ Built
    /\ Get(step.args).request.bitrate = <<"9", "5", "k">>
    /\ ~Get(step.args).content.is_loop
    /\ ArgAfter("-bufsize") = Some("190k")
    /\ ArgAfter("-maxrate") = Some("95k")

\* C16: once a session is stopped, its monitor polls the platform no more,
\* appends nothing to the session's log and makes no reconnect attempt, also
\* when the session was stopped during the monitor's sleep.
C16_MonitorStopsWithSession ==
    [][\A b \in DOMAIN sessions :
          (sessions[b].status = "stopped" /\ MonitorStepOn(b)')
              => /\ Events(step'.io, "call") = <<>>
                 /\ sessions'[b].log = sessions[b].log
                 /\ sessions'[b].reconnect_attempts = sessions[b].reconnect_attempts]_vars

\* the "reconnecting" notifications among a step's effects
ReconnectNotes(io) ==
    SelectSeq(io, LAMBDA e : e.kind = "notify"
                             /\ \E name \in Names : e.a = "Reconnecting stream " \o name)

\* C17: in every reconnect the counter is incremented, the notification
\* names the new count and goes out before the encoder is started, and the
\* session is reconnecting from then until the launch succeeds: streaming
\* when the monitor step has launched the encoder and returned, reconnecting
\* when the encoder could not be started.
C17_ReconnectOrder ==
    [][\A b \in DOMAIN sessions :
          (MonitorStepOn(b)' /\ ReconnectNotes(step'.io) # <<>>)
          => /\ Len(ReconnectNotes(step'.io)) = 1
             /\ sessions'[b].reconnect_attempts = sessions[b].reconnect_attempts + 1
             /\ ReconnectNotes(step'.io)[1].b =
                   "Health degraded for broadcast " \o b \o ", attempt "
                       \o Str(sessions'[b].reconnect_attempts) \o "."
             /\ \A i, j \in 1..Len(step'.io) :
                   (step'.io[i].kind = "notify" /\ step'.io[i] = ReconnectNotes(step'.io)[1]
                      /\ step'.io[j].kind = "popen") => i < j
             /\ step'.exc = NoError => sessions'[b].status = "streaming"
             /\ LaunchFailed(step'.exc) => sessions'[b].status = "reconnecting"]_vars
\* the same without the status a failed launch leaves
C17_ReconnectOrderOnly ==
    [][\A b \in DOMAIN sessions :
          (MonitorStepOn(b)' /\ ReconnectNotes(step'.io) # <<>>)
          => /\ Len(ReconnectNotes(step'.io)) = 1
             /\ sessions'[b].reconnect_attempts = sessions[b].reconnect_attempts + 1
             /\ ReconnectNotes(step'.io)[1].b =
                   "Health degraded for broadcast " \o b \o ", attempt "
                       \o Str(sessions'[b].reconnect_attempts) \o "."
             /\ \A i, j \in 1..Len(step'.io) :
                   (step'.io[i].kind = "notify" /\ step'.io[i] = ReconnectNotes(step'.io)[1]
                      /\ step'.io[j].kind = "popen") => i < j
             /\ step'.exc = NoError => sessions'[b].status = "streaming"]_vars

\* a stop_stream on a session already stopped sends no signal
NoSecondSignal ==
    (step'.op = "stop_stream" /\ step'.target \in DOMAIN sessions
        /\ sessions[step'.target].status = "stopped")
        => Events(step'.io, "kill") = <<>>

\* C18: a stop_stream that completes on a registered session leaves the
\* session stopped and without encoder handle, and a stop_stream on a
\* session already stopped sends no terminate signal.
C18_HandleClearedOnStop ==
    [][/\ (step'.op = "stop_stream" /\ step'.target \in DOMAIN sessions
              /\ step'.exc = NoError)
            => /\ sessions'[step'.target].status = "stopped"
               /\ ~IsSome(sessions'[step'.target].ffmpeg_process_pid)
       /\ NoSecondSignal]_vars
\* the second half on its own
C18_NoSecondSignal == [][NoSecondSignal]_vars

\* session s has just logged a launch, and the step started no process
LaunchLoggedNotStarted(s, io) ==
    /\ s.log # <<>>
    /\ s.log[Len(s.log)].msg =
          "Launching ffmpeg: "
              \o build_ffmpeg_command(s.requested.content, s.ingestion_url, s.requested)
    /\ Events(io, "popen") = <<>>

\* the effects hold no request to go live and no "started" notification
NoLiveNoStarted(io) ==
    \A i \in 1..Len(io) :
        /\ ~(io[i].kind = "call" /\ io[i].a = "transition")
        /\ ~(io[i].kind = "notify" /\ \E name \in Names : io[i].a = "Stream " \o name \o " started")

\* C19: when the encoder process cannot be started in a launch, made by
\* start_stream or by a monitor's reconnect, the error is raised to the
\* caller, the session's status, encoder handle and start time are what they
\* were before the launch (for a start_stream: configured, none, none), no
\* process is added, and neither the transition to live nor the "started"
\* notification is issued.
C19_FailedLaunchLeavesSession ==
    [][/\ \A b \in DOMAIN sessions' \ DOMAIN sessions :
             (step'.op = "start_stream" /\ LaunchLoggedNotStarted(sessions'[b], step'.io))
             => /\ step'.exc = OSError
                /\ sessions'[b].status = "configured"
                /\ sessions'[b].ffmpeg_process_pid = None
                /\ sessions'[b].started_at = None
                /\ procs' = procs
                /\ NoLiveNoStarted(step'.io)
       /\ \A b \in DOMAIN sessions :
             (MonitorStepOn(b)' /\ sessions'[b].log # sessions[b].log
                /\ LaunchLoggedNotStarted(sessions'[b], step'.io))
             => /\ step'.exc = OSError
                /\ sessions'[b].status = sessions[b].status
                /\ sessions'[b].ffmpeg_process_pid = sessions[b].ffmpeg_process_pid
                /\ sessions'[b].started_at = sessions[b].started_at
                /\ procs' = procs
                /\ NoLiveNoStarted(step'.io)]_vars
\* a reconnect whose process could not be started, on a session that
\* streams: the handle is still the one of the first encoder
C19_Witness ==
    /\ step.by = "monitor" /\ step.exc = OSError
    /\ step.target \in DOMAIN sessions
    /\ LaunchLoggedNotStarted(sessions[step.target], step.io)
    /\ sessions[step.target].status = "streaming"
    /\ sessions[step.target].ffmpeg_process_pid = Some(1)
    /\ sessions[step.target].reconnect_attempts = 1

\* a health poll among the effects io was answered
PollAnswered(io) ==
    \E i \in 1..Len(io) :
        io[i].kind = "call" /\ io[i].a = "get_stream_health" /\ io[i].r # Raised

\* the metrics poll among the effects io reported this many viewers
ViewersReported(io, n) ==
    \E i \in 1..Len(io) :
        io[i].kind = "call" /\ io[i].a = "get_broadcast_metrics" /\ io[i].r = n

\* C20: in every monitor iteration whose health poll is answered, the
\* reconnect path is run (once) if the answer has activity not "active" or
\* health "error", and not at all otherwise; an iteration without reconnect
\* leaves status, encoder handle, reconnect count and encoders as they were
\* whatever the metrics poll answers, and a viewer count adds one log entry.
C20_DecisionRule ==
    [][\A b \in DOMAIN sessions :
          (MonitorStepOn(b)' /\ PollAnswered(step'.io))
          => /\ PolledDegraded(step'.io) <=> ReconnectNotes(step'.io) # <<>>
             /\ sessions'[b].reconnect_attempts
                   = sessions[b].reconnect_attempts
                        + (IF PolledDegraded(step'.io) THEN 1 ELSE 0)
             /\ ~PolledDegraded(step'.io)
                   => /\ sessions'[b].status = sessions[b].status
                      /\ sessions'[b].ffmpeg_process_pid = sessions[b].ffmpeg_process_pid
                      /\ procs' = procs
                      /\ Events(step'.io, "popen") = <<>>
                      /\ Len(sessions'[b].log) = Len(sessions[b].log)
                            + (IF ViewersReported(step'.io, "7") THEN 2 ELSE 1)
             /\ ViewersReported(step'.io, "7")
                   => sessions'[b].log[Len(sessions'[b].log)].msg = "Viewers: 7"]_vars
\* an iteration whose poll answers active with health error reconnects, and
\* the same iteration is told of 7 viewers
C20_Witness ==
    /\ step.by = "monitor"
    /\ \E i \in 1..Len(step.io) :
          /\ step.io[i].a = "get_stream_health"
          /\ step.io[i].r = HealthText([status |-> "active", health |-> "error"])
    /\ ReconnectNotes(step.io) # <<>>
    /\ ViewersReported(step.io, "7")
    /\ sessions[step.target].reconnect_attempts = 1
\* an iteration whose poll answers active and good is told of 7 viewers and
\* leaves the session streaming
C20_WitnessHealthy ==
    /\ step.by = "monitor"
    /\ \E i \in 1..Len(step.io) :
          /\ step.io[i].a = "get_stream_health"
          /\ step.io[i].r = HealthText(Healthy)
    /\ ViewersReported(step.io, "7")
    /\ step.before = "streaming"
    /\ sessions[step.target].status = "streaming"
    /\ sessions[step.target].reconnect_attempts = 0


\* a session enters streaming for the first time: it is streaming after the
\* step and was not registered, or had never been started, before it
FirstStreaming(b) ==
    /\ b \in DOMAIN sessions'
    /\ sessions'[b].status = "streaming"
    /\ (b \in DOMAIN sessions => ~IsSome(sessions[b].started_at))

\* the start_stream a scheduler job runs returned an identifier
ScheduledFireReturned == step.by = "scheduler" /\ step.exc = NoError

\* C21: the start_stream run by a scheduler job, when it returns, has
\* launched the session it created (one encoder started, status streaming);
\* and every session's first entry into streaming happens with a reconnect
\* count of 0 and is not made by a monitor iteration.
C21_ScheduledFireLaunches ==
    [][/\ ScheduledFireReturned' =>
            /\ sessions'[step'.ret].status = "streaming"
            /\ Events(step'.io, "popen") # <<>>
       /\ \A b \in Ids :
            FirstStreaming(b) =>
               /\ sessions'[b].reconnect_attempts = 0
               /\ step'.by # "monitor"]_vars


\* log a is a prefix of log b
IsPrefix(a, b) == Len(a) <= Len(b) /\ SubSeq(b, 1, Len(a)) = a

\* tail holds the last min(10, length) entries of log, in the order of log
LastTen(tail, log) ==
    LET n == IF Len(log) < 10 THEN Len(log) ELSE 10
    IN /\ Len(tail) = n
       /\ \A i \in 1..n : tail[i] = log[Len(log) - n + i]

\* C22: every step leaves each registered session registered with its log
\* as it was and zero or more entries added at the end; get_status changes
\* no session, and when it returns for a registered session its log_tail
\* is the last min(10, length) entries of that session's log, in log order.
C22_LogAppendOnly ==
    [][/\ \A b \in DOMAIN sessions :
            /\ b \in DOMAIN sessions'
            /\ IsPrefix(sessions[b].log, sessions'[b].log)
       /\ step'.op = "get_status" =>
            /\ sessions' = sessions
            /\ (step'.target \in DOMAIN sessions /\ step'.exc = NoError) =>
                  /\ IsSome(step'.view)
                  /\ LastTen(Get(step'.view).log_tail, sessions[step'.target].log)]_vars
C22_Witness ==
    /\ step.op = "get_status" /\ step.exc = NoError
    /\ step.target \in DOMAIN sessions
    /\ Len(sessions[step.target].log) = 12
    /\ Len(Get(step.view).log_tail) = 10
    /\ Get(step.view).log_tail[1] = sessions[step.target].log[3]
    /\ Get(step.view).log_tail[1] # sessions[step.target].log[1]


\* C23, of a streaming session: an encoder-process handle and a started-at
\* timestamp are recorded.
C23_StreamingHasHandle ==
    \A b \in DOMAIN sessions :
        sessions[b].status = "streaming" =>
           /\ IsSome(sessions[b].ffmpeg_process_pid)
           /\ IsSome(sessions[b].started_at)

\* C23, of a configured session: no encoder-process handle is recorded.
C23_ConfiguredHasNoHandle ==
    \A b \in DOMAIN sessions :
        sessions[b].status = "configured" => ~IsSome(sessions[b].ffmpeg_process_pid)

\* C23: in every reachable state a streaming session has an encoder-process
\* handle and a started-at timestamp recorded, and a configured session has
\* no encoder-process handle recorded and a reconnect count of 0.
C23_StatusFields ==
    /\ C23_StreamingHasHandle
    /\ C23_ConfiguredHasNoHandle
    /\ \A b \in DOMAIN sessions :
          sessions[b].status = "configured" => sessions[b].reconnect_attempts = 0

====
